---- MODULE Spec2Model ----
(***************************************************************************)
(* Model of stolas.struct.trait and stolas.operand.cases: the              *)
(* TraitDispatcher of one trait, its two registries and their caches, with *)
(* the operations impl / __call__ / require / check (Spec); _unwrap_types  *)
(* (SpecUnwrap); and the variant classes and instances made by @cases      *)
(* (SpecCases).                                                            *)
(***************************************************************************)
EXTENDS Integers, Sequences, FiniteSets, TLC

(* ------------------------------ bounds --------------------------------- *)

\* Largest number of keys the two registries hold together.
MaxKeys == 2

(* --------------------------- the type universe ------------------------- *)

\* Python's None, as the value of "no implementation found".
None == "None"

\* Plain classes of the program under dispatch: A and B both subclass Base.
PlainClasses == {"object", "Base", "A", "B"}

\* Classes decorated with @cases.
SumTypes == {"Pet", "Solo", "Empty", "Option", "Status", "Outer"}

\* get_type_hints(cls): the annotations of each @cases class body, in order, as
\* <<variant name, annotation>>. "NoneType" is type(None), "Any" is typing.Any,
\* every other annotation is a class.
Annotations(s) ==
    CASE s = "Pet"    -> << <<"Dog", "A">>, <<"Cat", "B">> >>
      [] s = "Solo"   -> << <<"Only", "A">> >>
      [] s = "Empty"  -> << >>
      [] s = "Option" -> << <<"Some", "Any">>, <<"Nothing", "NoneType">> >>
      [] s = "Status" -> << <<"Active", "Any">>, <<"Inactive", "NoneType">> >>
      [] s = "Outer"  -> << <<"In", "Pet">>, <<"Z", "Base">> >>

\* _is_unit_variant
IsUnitVariant(variant_type) == variant_type = "NoneType"

\* _is_any_type
IsAnyType(variant_type) == variant_type = "Any"

\* _is_existing_class
IsExistingClass(variant_type) ==
    /\ variant_type \in PlainClasses \cup SumTypes
    /\ variant_type # "NoneType"
    /\ ~IsAnyType(variant_type)

\* Mutation: an existing class is wrapped in a synthesized value variant.
CreateVariant_neverAliases(name, variant_type, parent_name) ==
    IF IsUnitVariant(variant_type)
    THEN [cls |-> name, is_singleton |-> TRUE, kind |-> "unit"]
    ELSE [cls |-> name, is_singleton |-> FALSE, kind |-> "value"]

\* _create_variant: the variant class and whether it is a singleton. A synthesized
\* class is type(name, (), ...): it is identified by its name.
CreateVariant(name, variant_type, parent_name) ==
    IF IsUnitVariant(variant_type)
    THEN [cls |-> name, is_singleton |-> TRUE, kind |-> "unit"]
    ELSE IF IsExistingClass(variant_type)
    THEN [cls |-> variant_type, is_singleton |-> FALSE, kind |-> "alias"]
    ELSE [cls |-> name, is_singleton |-> FALSE, kind |-> "value"]

\* cases(): the variant_types list built by the loop over the annotations.
VariantTypes(s) ==
    [i \in 1..Len(Annotations(s)) |->
        CreateVariant(Annotations(s)[i][1], Annotations(s)[i][2], s).cls]

\* The classes synthesized by the @cases declarations, by kind of variant.
SynthesizedClasses(kind) ==
    UNION { { CreateVariant(Annotations(s)[i][1], Annotations(s)[i][2], s).cls :
                i \in { j \in 1..Len(Annotations(s)) :
                          CreateVariant(Annotations(s)[j][1], Annotations(s)[j][2],
                                        s).kind = kind } } :
            s \in SumTypes }

UnitClasses == SynthesizedClasses("unit")

ValueClasses == SynthesizedClasses("value")

Classes == PlainClasses \cup SumTypes \cup UnitClasses \cup ValueClasses

\* cls.__mro__ : the class itself first, then its ancestors, most specific first.
Mro(t) ==
    CASE t = "object" -> <<"object">>
      [] t = "Base"   -> <<"Base", "object">>
      [] t = "A"      -> <<"A", "Base", "object">>
      [] t = "B"      -> <<"B", "Base", "object">>
      [] t \in SumTypes \cup UnitClasses \cup ValueClasses -> <<t, "object">>

\* Argument values (instances) and type(arg).
Values == {"a", "b"}

TypeOf(v) ==
    CASE v = "a" -> "A"
      [] v = "b" -> "B"

\* type(x).__name__ : classes are identified by their names here.
TypeName(t) == t

\* Union objects, written A | B or Union[A, B]: each with its get_args.
UnionArgs ==
    { <<"A|B", <<"A", "B">> >>,
      <<"Pet|Base", <<"Pet", "Base">> >>,
      <<"Some|Nothing", <<"Some", "Nothing">> >>,
      <<"Active|Inactive", <<"Active", "Inactive">> >> }

\* Unions a program writes as type arguments of impl.
BuiltinUnions == {"A|B", "Pet|Base"}

\* get_origin(t) is Union or get_origin(t) is types.UnionType
IsUnion(t) == \E u \in UnionArgs : u[1] = t

\* get_args(t) of a union
GetArgs(t) == IF IsUnion(t) THEN (CHOOSE u \in UnionArgs : u[1] = t)[2] ELSE <<>>

\* The parameters of a Union without repetitions, first occurrences kept.
RECURSIVE Dedup(_)
Dedup(ts) ==
    IF ts = <<>> THEN <<>>
    ELSE LET rest == Dedup([i \in 1..(Len(ts) - 1) |-> ts[i]])
             last == ts[Len(ts)]
         IN IF \E i \in 1..Len(rest) : rest[i] = last THEN rest ELSE Append(rest, last)

\* typing.Union[tuple(ts)] for a non-empty ts: repeated parameters are dropped and
\* a union of one type is that type itself.
MakeUnion(ts) ==
    IF Len(Dedup(ts)) = 1 THEN Dedup(ts)[1]
    ELSE (CHOOSE u \in UnionArgs : u[2] = Dedup(ts))[1]

\* hasattr(t, "_union") and getattr(t, "_union")
HasUnionAttr(t) == t \in SumTypes

\* cls._union = Union[tuple(variant_types)] if variant_types else None
UnionAttr(t) == IF VariantTypes(t) = <<>> THEN None ELSE MakeUnion(VariantTypes(t))

\* Implementation functions handed to the decorator.
Funcs == {"f", "g"}

\* The number of parameters each function declares by name, as in
\* def f(x, *rest, **kw) and def g(x, y, *rest, **kw).
NParams(f) == IF f = "f" THEN 1 ELSE 2

\* self._default: the function the trait was declared with. It is none of the
\* implementation functions.
default_func == "default"

\* default_func.__name__
TraitName == "describe"

(* ------------------------------ dictionaries --------------------------- *)

\* A registry is an insertion-ordered dict: a sequence of <<key, value>> pairs.
DictHas(d, k) == \E i \in 1..Len(d) : d[i][1] = k

DictGet(d, k) == d[CHOOSE i \in 1..Len(d) : d[i][1] = k][2]

\* Mutation: a key that is already present keeps its first value.
DictSet_keepsFirst(d, k, v) ==
    IF DictHas(d, k) THEN d ELSE Append(d, <<k, v>>)

\* d[k] = v
DictSet(d, k, v) ==
    IF DictHas(d, k)
    THEN [i \in 1..Len(d) |-> IF d[i][1] = k THEN <<k, v>> ELSE d[i]]
    ELSE Append(d, <<k, v>>)

DictKeys(d) == [i \in 1..Len(d) |-> d[i][1]]

\* A cache is a dict that is never iterated: a set of <<key, value>> pairs.
CacheHas(c, k) == \E e \in c : e[1] = k

CacheGet(c, k) == (CHOOSE e \in c : e[1] = k)[2]

\* Mutation: storing an entry drops every other entry.
CachePut_replacesAll(c, k, v) == {<<k, v>>}

\* c[k] = v
CachePut(c, k, v) == {e \in c : e[1] # k} \cup {<<k, v>>}

\* Mutation: clear() leaves the entries in place.
DictClear_keeps(c) == c

\* dict.clear()
DictClear(c) == {}

(* ------------------------------- state --------------------------------- *)

VARIABLES
    registry_single,   \* self._registry_single : type -> impl
    cache_single,      \* self._cache_single
    registry_multi,    \* self._registry_multi : (type, ...) -> impl
    cache_multi,       \* self._cache_multi
    op,                \* the operation performed last
    args,              \* its positional arguments (type arguments for impl)
    kwargs,            \* its keyword arguments (names)
    func,              \* the function given to the decorator (impl only)
    outcome,           \* how it ended: a returned value or a raised error
    invoked,           \* the implementations it invoked, with their arguments
    warnings,          \* the warnings it emitted
    unwrap_op,         \* the last use of _unwrap_types: "unwrap" or "again"
    unwrap_arg,        \* the tuple of types it was given
    unwrap_result,     \* the tuple of types it returned
    heap,              \* the variant instances constructed so far
    instance,          \* cls._instance of each unit variant class (0: not set)
    members,           \* cls.<name> of each declared variant
    c_op,              \* the operation performed last on variants
    c_args,            \* its operands
    c_result,          \* how it ended
    c_calls,           \* the calls it made of functions it was handed
    dicts,             \* the dict objects allocated so far, by identity
    traits,            \* every declared trait: the dicts its four fields refer to
    t_op,              \* the operation performed last on a declared trait
    t_self,            \* the trait it was performed on
    t_args             \* its type arguments or its arguments

traitVars == <<registry_single, cache_single, registry_multi, cache_multi,
               op, args, kwargs, func, outcome, invoked, warnings>>

unwrapVars == <<unwrap_op, unwrap_arg, unwrap_result>>

casesVars == <<heap, instance, members, c_op, c_args, c_result, c_calls>>

instanceVars == <<dicts, traits, t_op, t_self, t_args>>

vars == <<traitVars, unwrapVars, casesVars, instanceVars>>

regs == <<registry_single, registry_multi>>

caches == <<cache_single, cache_multi>>

(* --------------------------- _unwrap_types ------------------------------ *)

RECURSIVE UnwrapTypes(_)
UnwrapTypes(ts) ==
    IF ts = <<>> THEN <<>>
    ELSE LET t == Head(ts)
             piece == IF HasUnionAttr(t) /\ IsUnion(UnionAttr(t))
                      THEN GetArgs(UnionAttr(t))
                      ELSE IF IsUnion(t) THEN GetArgs(t) ELSE <<t>>
         IN piece \o UnwrapTypes(Tail(ts))

(* ----------------------- _find_implementation_single ------------------- *)

\* The for loop over arg_type.__mro__ from position j on: the first registered type.
RECURSIVE MroLoopSingle(_, _, _)
\* Mutation: the MRO is walked from the least specific class.
MroLoopSingle_leastSpecificFirst(mro, registry, j) ==
    IF j > Len(mro) THEN None
    ELSE IF DictHas(registry, mro[Len(mro) + 1 - j])
    THEN DictGet(registry, mro[Len(mro) + 1 - j])
    ELSE MroLoopSingle(mro, registry, j + 1)

MroLoopSingle(mro, registry, j) ==
    IF j > Len(mro) THEN None
    ELSE IF DictHas(registry, mro[j]) THEN DictGet(registry, mro[j])
    ELSE MroLoopSingle(mro, registry, j + 1)

FindImplementationSingle(arg_type, registry, cache) ==
    IF CacheHas(cache, arg_type)
    THEN [impl |-> CacheGet(cache, arg_type), cache |-> cache]
    ELSE LET found == MroLoopSingle(Mro(arg_type), registry, 1)
         IN IF found # None
            THEN [impl |-> found, cache |-> CachePut(cache, arg_type, found)]
            ELSE [impl |-> None, cache |-> cache]

(* ----------------------- _find_implementation_multi -------------------- *)

RECURSIVE SearchMro(_, _, _, _)
RECURSIVE SearchMroLoop(_, _, _, _, _)

\* Mutation: a combination also matches a longer signature that starts with it.
SearchMro_matchesPrefix(mros, registry, idx, current) ==
    IF idx = Len(mros) + 1
    THEN IF \E i \in 1..Len(registry) :
               /\ Len(registry[i][1]) >= Len(current)
               /\ SubSeq(registry[i][1], 1, Len(current)) = current
         THEN LET n == CHOOSE k \in 1..Len(registry) :
                           /\ Len(registry[k][1]) >= Len(current)
                           /\ SubSeq(registry[k][1], 1, Len(current)) = current
              IN registry[n][2]
         ELSE None
    ELSE SearchMroLoop(mros, registry, idx, current, 1)

\* search_mro(idx, current); idx counts from 1 here.
SearchMro(mros, registry, idx, current) ==
    IF idx = Len(mros) + 1
    THEN IF DictHas(registry, current) THEN DictGet(registry, current) ELSE None
    ELSE SearchMroLoop(mros, registry, idx, current, 1)

\* Mutation: each MRO is walked from the least specific class.
SearchMroLoop_leastSpecificFirst(mros, registry, idx, current, j) ==
    IF j > Len(mros[idx]) THEN None
    ELSE LET t == mros[idx][Len(mros[idx]) + 1 - j]
             result == SearchMro(mros, registry, idx + 1, Append(current, t))
         IN IF result # None THEN result
            ELSE SearchMroLoop(mros, registry, idx, current, j + 1)

\* its for loop over mros[idx], from position j on.
SearchMroLoop(mros, registry, idx, current, j) ==
    IF j > Len(mros[idx]) THEN None
    ELSE LET result == SearchMro(mros, registry, idx + 1, Append(current, mros[idx][j]))
         IN IF result # None THEN result
            ELSE SearchMroLoop(mros, registry, idx, current, j + 1)

\* Mutation: a signature also answers for its arguments in reverse order.
FindImplementationMulti_anyOrder(arg_types, registry, cache) ==
    IF CacheHas(cache, arg_types)
    THEN [impl |-> CacheGet(cache, arg_types), cache |-> cache]
    ELSE LET mros == [i \in 1..Len(arg_types) |-> Mro(arg_types[i])]
             rev == [i \in 1..Len(arg_types) |-> mros[Len(arg_types) + 1 - i]]
             fwd == SearchMro(mros, registry, 1, <<>>)
             impl == IF fwd # None THEN fwd ELSE SearchMro(rev, registry, 1, <<>>)
         IN [impl |-> impl,
             cache |-> IF impl # None THEN CachePut(cache, arg_types, impl) ELSE cache]

FindImplementationMulti(arg_types, registry, cache) ==
    IF CacheHas(cache, arg_types)
    THEN [impl |-> CacheGet(cache, arg_types), cache |-> cache]
    ELSE IF DictHas(registry, arg_types)
    THEN [impl |-> DictGet(registry, arg_types),
          cache |-> CachePut(cache, arg_types, DictGet(registry, arg_types))]
    ELSE LET mros == [i \in 1..Len(arg_types) |-> Mro(arg_types[i])]
             impl == SearchMro(mros, registry, 1, <<>>)
         IN [impl |-> impl,
             cache |-> IF impl # None THEN CachePut(cache, arg_types, impl) ELSE cache]

(* ------------------------------ values --------------------------------- *)

\* What impl(*args, **kwargs) returns: the function's own result on these arguments.
Apply(f, a, kw) == <<"result", f, a, kw>>

Invocation(f, a, kw) == [func |-> f, args |-> a, kwargs |-> kw]

Returned(v) == [kind |-> "return", exc |-> None, msg |-> <<>>, value |-> v]

Raised(e, m) == [kind |-> "raise", exc |-> e, msg |-> m, value |-> <<>>]

PyNone == <<"None">>

PyBool(b) == <<"bool", b>>

\* ", ".join(names)
RECURSIVE Join(_, _)
Join(sep, names) ==
    IF Len(names) = 0 THEN <<>>
    ELSE IF Len(names) = 1 THEN <<names[1]>>
    ELSE <<names[1], sep>> \o Join(sep, Tail(names))

TypesOf(a) == [i \in 1..Len(a) |-> TypeOf(a[i])]

TypeNames(a) == [i \in 1..Len(a) |-> TypeName(TypeOf(a[i]))]

NoArgsMessage == <<TraitName, "() requires at least one argument">>

SingleMissMessage(a) ==
    <<"No implementation of '", TraitName, "' for type: ", TypeName(TypeOf(a[1]))>>

\* Mutation: the multi-dispatch text names the first argument's type only.
MultiMissMessage_firstOnly(a) ==
    <<"No implementation of '", TraitName, "' for types: (",
      TypeName(TypeOf(a[1])), ")">>

MultiMissMessage(a) ==
    <<"No implementation of '", TraitName, "' for types: (">>
        \o Join(", ", TypeNames(a)) \o <<")">>

\* TraitDispatcher._is_multi_dispatch
IsMultiDispatch == registry_multi # <<>>

\* TraitDispatcher.types and TraitDispatcher.signatures
types == DictKeys(registry_single)

signatures == DictKeys(registry_multi)

(* ------------------------- TraitDispatcher.impl ------------------------ *)

\* for t in unwrapped: self._registry_single[t] = func
RECURSIVE RegisterEach(_, _, _)
RegisterEach(registry, ts, f) ==
    IF ts = <<>> THEN registry
    ELSE RegisterEach(DictSet(registry, Head(ts), f), Tail(ts), f)

\* tuple(_unwrap_types((t,))[0] for t in types_)
UnwrapSignature(ts) == [i \in 1..Len(ts) |-> UnwrapTypes(<<ts[i]>>)[1]]

\* The state impl(*types_)(func) leaves behind.
DecoratorResult(ts, f) ==
    IF Len(ts) > 1
    THEN [registry_single |-> registry_single,
          cache_single    |-> cache_single,
          registry_multi  |-> DictSet(registry_multi, UnwrapSignature(ts), f),
          cache_multi     |-> DictClear(cache_multi)]
    ELSE [registry_single |-> RegisterEach(registry_single, UnwrapTypes(ts), f),
          cache_single    |-> DictClear(cache_single),
          registry_multi  |-> registry_multi,
          cache_multi     |-> cache_multi]

(* ----------------------- TraitDispatcher.__call__ ---------------------- *)

Result(o, inv, w, cs, cm) ==
    [outcome |-> o, invoked |-> inv, warnings |-> w,
     cache_single |-> cs, cache_multi |-> cm]

\* Mutation: no arguments is handled as a dispatch miss.
CallNoArgs_asMiss(a, kw) ==
    Result(Raised("NotImplementedError", NoArgsMessage), <<>>,
           <<[category |-> "MissingImplementationWarning", msg |-> NoArgsMessage]>>,
           cache_single, cache_multi)

\* if not args: raise TypeError(...)
CallNoArgs(a, kw) ==
    Result(Raised("TypeError", NoArgsMessage), <<>>, <<>>, cache_single, cache_multi)

\* Mutation: multi-dispatch is tried only with more than two arguments.
TryMulti_moreThanTwo(a) == IsMultiDispatch /\ Len(a) > 2

\* self._is_multi_dispatch and len(args) >= 2
TryMulti(a) == IsMultiDispatch /\ Len(a) >= 2

\* Mutation: the keyword arguments are not passed on.
CallInvoke_dropsKwargs(impl, a, kw, cs, cm) ==
    Result(Returned(Apply(impl, a, {})), <<Invocation(impl, a, {})>>, <<>>, cs, cm)

\* return impl(*args, **kwargs)
CallInvoke(impl, a, kw, cs, cm) ==
    Result(Returned(Apply(impl, a, kw)), <<Invocation(impl, a, kw)>>, <<>>, cs, cm)

\* Mutation: the miss raises without warning.
CallMiss_silent(a, cs, cm) ==
    LET msg == IF IsMultiDispatch /\ Len(a) >= 2 THEN MultiMissMessage(a)
               ELSE SingleMissMessage(a)
    IN Result(Raised("NotImplementedError", msg), <<>>, <<>>, cs, cm)

\* Mutation: a miss runs the function the trait was declared with.
CallMiss_runsDefault(a, cs, cm) ==
    Result(Returned(Apply(default_func, a, {})), <<Invocation(default_func, a, {})>>,
           <<>>, cs, cm)

\* The branch taken when single dispatch finds nothing: warn, then raise.
CallMiss(a, cs, cm) ==
    LET msg == IF TryMulti(a) THEN MultiMissMessage(a) ELSE SingleMissMessage(a)
    IN Result(Raised("NotImplementedError", msg), <<>>,
              <<[category |-> "MissingImplementationWarning", msg |-> msg]>>, cs, cm)

CallResult(a, kw) ==
    IF Len(a) = 0 THEN CallNoArgs(a, kw)
    ELSE LET m == IF TryMulti(a)
                  THEN FindImplementationMulti(TypesOf(a), registry_multi, cache_multi)
                  ELSE [impl |-> None, cache |-> cache_multi]
         IN IF m.impl # None
            THEN CallInvoke(m.impl, a, kw, cache_single, m.cache)
            ELSE LET s == FindImplementationSingle(TypeOf(a[1]), registry_single,
                                                   cache_single)
                 IN IF s.impl = None
                    THEN CallMiss(a, s.cache, m.cache)
                    ELSE CallInvoke(s.impl, a, kw, s.cache, m.cache)

(* ------------------ TraitDispatcher.require and check ------------------ *)

\* Mutation: a failed multi-dispatch lookup answers False without the fallback.
RequireResult_noFallback(objs) ==
    LET tried == IsMultiDispatch /\ Len(objs) >= 2
        m == IF tried
             THEN FindImplementationMulti(TypesOf(objs), registry_multi, cache_multi)
             ELSE [impl |-> None, cache |-> cache_multi]
    IN IF m.impl # None
       THEN Result(Returned(PyBool(TRUE)), <<>>, <<>>, cache_single, m.cache)
       ELSE IF tried
       THEN Result(Returned(PyBool(FALSE)), <<>>, <<>>, cache_single, m.cache)
       ELSE IF Len(objs) = 0
       THEN Result(Raised("IndexError", <<"tuple index out of range">>), <<>>, <<>>,
                   cache_single, m.cache)
       ELSE LET s == FindImplementationSingle(TypeOf(objs[1]), registry_single,
                                              cache_single)
            IN Result(Returned(PyBool(s.impl # None)), <<>>, <<>>, s.cache, m.cache)

RequireResult(objs) ==
    LET m == IF TryMulti(objs)
             THEN FindImplementationMulti(TypesOf(objs), registry_multi, cache_multi)
             ELSE [impl |-> None, cache |-> cache_multi]
    IN IF m.impl # None
       THEN Result(Returned(PyBool(TRUE)), <<>>, <<>>, cache_single, m.cache)
       ELSE IF Len(objs) = 0
       THEN \* objs[0] of the empty tuple
            Result(Raised("IndexError", <<"tuple index out of range">>), <<>>, <<>>,
                   cache_single, m.cache)
       ELSE LET s == FindImplementationSingle(TypeOf(objs[1]), registry_single,
                                              cache_single)
            IN Result(Returned(PyBool(s.impl # None)), <<>>, <<>>, s.cache, m.cache)

CheckResult(objs) ==
    LET r == RequireResult(objs)
    IN IF r.outcome.kind = "raise" THEN r
       ELSE IF r.outcome.value = PyBool(FALSE)
       THEN LET msg == IF TryMulti(objs) THEN MultiMissMessage(objs)
                       ELSE SingleMissMessage(objs)
            IN [r EXCEPT !.outcome = Raised("TypeError", msg)]
       ELSE [r EXCEPT !.outcome = Returned(PyNone)]

(* ------------------------------ @cases ---------------------------------- *)

\* Largest number of variant instances alive together.
MaxObjects == 4

\* Payloads given to value variants.
Payloads == {"p", "q"}

\* Attribute names a program assigns or deletes on a variant instance.
AttrNames == {"_value", "value", "_instance"}

\* The order in which the module declares its @cases classes.
Declarations == <<"Pet", "Solo", "Empty", "Option", "Status", "Outer">>

\* The variant names of all declarations.
VariantNames ==
    UNION { {Annotations(s)[i][1] : i \in 1..Len(Annotations(s))} : s \in SumTypes }

\* A variant instance: its class and the content of its _value slot (None for a
\* unit variant, whose class has no slots).
Object(c, value) == [cls |-> c, payload |-> value]

\* Mutation: every construction allocates a fresh instance.
UnitNew_alwaysAllocates(h, inst, c) ==
    [heap |-> Append(h, Object(c, None)),
     instance |-> [inst EXCEPT ![c] = Len(h) + 1],
     ref |-> Len(h) + 1]

\* __new__ of a unit variant class c: inst[c] is cls._instance, 0 while the class
\* has no such attribute. References are positions in the heap h.
UnitNew(h, inst, c) ==
    IF inst[c] = 0
    THEN [heap |-> Append(h, Object(c, None)),
          instance |-> [inst EXCEPT ![c] = Len(h) + 1],
          ref |-> Len(h) + 1]
    ELSE [heap |-> h, instance |-> inst, ref |-> inst[c]]

\* Calling a value variant class c with one payload: a new object whose __init__
\* stores the payload in the _value slot.
ValueInit(h, c, value) ==
    [heap |-> Append(h, Object(c, value)), ref |-> Len(h) + 1]

\* What cls.<name> holds: the singleton instance or the variant class.
InstanceMember(r) == [kind |-> "instance", ref |-> r, cls |-> None]

ClassMember(c) == [kind |-> "class", ref |-> 0, cls |-> c]

\* The loop of cases() over the annotations of s from position i on, st holding the
\* heap, the _instance attributes and the members set so far.
RECURSIVE CasesLoop(_, _, _)
CasesLoop(st, s, i) ==
    IF i > Len(Annotations(s)) THEN st
    ELSE LET name == Annotations(s)[i][1]
             v == CreateVariant(name, Annotations(s)[i][2], s)
             n == UnitNew(st.heap, st.instance, v.cls)
         IN IF v.is_singleton
            THEN CasesLoop([heap |-> n.heap, instance |-> n.instance,
                            members |-> [st.members EXCEPT ![name] = InstanceMember(n.ref)]],
                           s, i + 1)
            ELSE CasesLoop([st EXCEPT !.members[name] = ClassMember(v.cls)], s, i + 1)

\* The module's declarations evaluated in order, from position k on.
RECURSIVE Declare(_, _)
Declare(st, k) ==
    IF k > Len(Declarations) THEN st
    ELSE Declare(CasesLoop(st, Declarations[k], 1), k + 1)

\* The program before any @cases class is declared.
Undeclared ==
    [heap |-> <<>>,
     instance |-> [c \in UnitClasses |-> 0],
     members |-> [n \in VariantNames |-> ClassMember(None)]]

\* Mutation: assigning _value goes to the slot, as object.__setattr__ does.
VariantSetAttr_writesSlot(h, o, attr, val) ==
    IF attr = "_value" /\ h[o].cls \in ValueClasses
    THEN [heap |-> [h EXCEPT ![o].payload = val], outcome |-> Returned(PyNone)]
    ELSE [heap |-> h, outcome |-> Raised("AttributeError", <<h[o].cls, " is immutable">>)]

\* __setattr__ of a value or unit variant class
VariantSetAttr(h, o, attr, val) ==
    [heap |-> h, outcome |-> Raised("AttributeError", <<h[o].cls, " is immutable">>)]

\* __delattr__ of a value or unit variant class
VariantDelAttr(h, o, attr) ==
    [heap |-> h, outcome |-> Raised("AttributeError", <<h[o].cls, " is immutable">>)]

\* Mutation: the payloads alone are compared.
ValueEq_ignoresType(h, a, b) == h[a].payload = h[b].payload

\* __eq__ of a value variant class
ValueEq(h, a, b) ==
    IF h[a].cls # h[b].cls THEN FALSE
    ELSE h[a].payload = h[b].payload

\* __eq__ of a unit variant class
UnitEq(h, a, b) == h[a].cls = h[b].cls

\* a == b : the __eq__ of type(a)
VariantEq(h, a, b) ==
    IF h[a].cls \in UnitClasses THEN UnitEq(h, a, b) ELSE ValueEq(h, a, b)

\* hash(x) of a variant name or of a payload: a number that equal values share
\* and that unequal values may share too.
AtomHash(x) ==
    CASE x \in {"Some", "p"}        -> 1
      [] x \in {"Active", "Nothing"} -> 2
      [] x = "q"                     -> 3
      [] OTHER                       -> 0

\* hash((x, y)) from the hashes of x and y
TupleHash(hx, hy) == (hx * 3 + hy) % 8

\* Mutation: the hash object gives by default, from the identity of the instance.
ValueHash_byIdentity(h, o) == o % 8

\* __hash__ of a value variant class: hash((name, self._value))
ValueHash(h, o) == TupleHash(AtomHash(h[o].cls), AtomHash(h[o].payload))

\* __hash__ of a unit variant class: hash(name)
UnitHash(h, o) == AtomHash(h[o].cls)

\* hash(o) : the __hash__ of type(o)
VariantHash(h, o) ==
    IF h[o].cls \in UnitClasses THEN UnitHash(h, o) ELSE ValueHash(h, o)

\* {os[1], ..., os[k]} : an element is added unless the set holds one with the
\* same hash that is the same object or compares equal.
RECURSIVE SetOf(_, _, _)
SetOf(h, os, k) ==
    IF k = 0 THEN {}
    ELSE LET s == SetOf(h, os, k - 1)
         IN IF \E e \in s : /\ VariantHash(h, e) = VariantHash(h, os[k])
                            /\ (e = os[k] \/ VariantEq(h, e, os[k]))
            THEN s
            ELSE s \cup {os[k]}

\* __rshift__ of a value variant: return func(self._value).
\* Mutation: the function is called and the variant itself is returned.
ValueRshift_returnsSelf(h, o, fn) ==
    [calls |-> <<Invocation(fn, <<h[o].payload>>, {})>>,
     outcome |-> Returned(<<"ref", o>>)]

ValueRshift(h, o, fn) ==
    [calls |-> <<Invocation(fn, <<h[o].payload>>, {})>>,
     outcome |-> Returned(Apply(fn, <<h[o].payload>>, {}))]

\* __rshift__ of a unit variant: return self.
UnitRshift(h, o, fn) ==
    [calls |-> <<>>, outcome |-> Returned(<<"ref", o>>)]

VariantRshift(h, o, fn) ==
    IF h[o].cls \in UnitClasses THEN UnitRshift(h, o, fn) ELSE ValueRshift(h, o, fn)

\* The operands of the last @cases operation; fields it does not use keep these.
NoOperands == [name |-> None, cls |-> None, obj |-> 0, other |-> 0, attr |-> None,
               value |-> None]

(* --------------------- several TraitDispatcher instances ---------------- *)

\* The traits a program declares with @trait.
Traits == {"describe", "render"}

\* Mutation: the four dicts are made once and shared by every dispatcher.
TraitInit_sharedDicts(store) ==
    IF store = <<>>
    THEN [dicts |-> << <<>>, {}, <<>>, {} >>,
          self  |-> [registry_single |-> 1, cache_single |-> 2,
                     registry_multi |-> 3, cache_multi |-> 4]]
    ELSE [dicts |-> store,
          self  |-> [registry_single |-> 1, cache_single |-> 2,
                     registry_multi |-> 3, cache_multi |-> 4]]

\* TraitDispatcher.__init__: four new, empty dicts, one for each field.
TraitInit(store) ==
    [dicts |-> store \o << <<>>, {}, <<>>, {} >>,
     self  |-> [registry_single |-> Len(store) + 1, cache_single |-> Len(store) + 2,
                registry_multi |-> Len(store) + 3, cache_multi |-> Len(store) + 4]]

\* The program after its two @trait declarations.
Declared ==
    LET first == TraitInit(<<>>)
        second == TraitInit(first.dicts)
    IN [dicts  |-> second.dicts,
        traits |-> [t \in Traits |-> IF t = "describe" THEN first.self ELSE second.self]]

\* The four dicts of dispatcher self, read through its fields.
Fields(store, self) ==
    [registry_single |-> store[self.registry_single],
     cache_single    |-> store[self.cache_single],
     registry_multi  |-> store[self.registry_multi],
     cache_multi     |-> store[self.cache_multi]]

\* impl(*ts)(f) on a dispatcher whose fields hold d: the dicts it writes.
Decorate(d, ts, f) ==
    IF Len(ts) > 1
    THEN [registry_multi |-> DictSet(d.registry_multi, UnwrapSignature(ts), f),
          cache_multi    |-> DictClear(d.cache_multi)]
    ELSE [registry_single |-> RegisterEach(d.registry_single, UnwrapTypes(ts), f),
          cache_single    |-> DictClear(d.cache_single)]

\* require(*objs), objs not empty, on a dispatcher whose fields hold d: the
\* caches the lookups write.
RequireCaches(d, objs) ==
    LET m == IF d.registry_multi # <<>> /\ Len(objs) >= 2
             THEN FindImplementationMulti(TypesOf(objs), d.registry_multi, d.cache_multi)
             ELSE [impl |-> None, cache |-> d.cache_multi]
    IN IF m.impl # None
       THEN [cache_multi |-> m.cache]
       ELSE [cache_multi  |-> m.cache,
             cache_single |-> FindImplementationSingle(TypeOf(objs[1]),
                                  d.registry_single, d.cache_single).cache]

\* The dict objects after the dicts of self named in w were given the contents w
\* holds for them; a dict object not named keeps its contents.
Written(store, self, w) ==
    [i \in 1..Len(store) |->
        IF \E k \in DOMAIN w : self[k] = i
        THEN w[CHOOSE k \in DOMAIN w : self[k] = i]
        ELSE store[i]]

(* ------------------------------ actions -------------------------------- *)

\* The decorated functions of the client program: impl(*types_) applied to func.
\* One class, a built-in union, a sum type, signatures, signatures holding a union
\* and a sum type.
Registrations ==
    { <<<<"Base">>, "f">>, <<<<"A">>, "g">>, <<<<"A|B">>, "f">>, <<<<"Pet">>, "g">>, <<<<"Solo">>, "f">>,
      <<<<"A", "B">>, "g">>, <<<<"B", "A">>, "f">>, <<<<"Base", "Base">>, "f">>,
      <<<<"A", "Base">>, "g">>, <<<<"Base", "B">>, "f">>, <<<<"A|B", "B">>, "f">>,
      <<<<"A", "B", "A">>, "g">>, <<<<"Solo", "B">>, "g">> }

\* The argument lists of the calls the client program makes: none, one, two, three.
ArgLists ==
    { <<>>, <<"a">>, <<"b">>, <<"a", "b">>, <<"b", "a">>, <<"a", "b", "a">> }

KwargSets == {{}, {"key"}}

\* Tuples of types handed to _unwrap_types: at most two of these.
UnwrapTypeArgs ==
    {"Base", "A", "B", "A|B", "Pet|Base", "Pet", "Solo", "Empty", "Option", "Status",
     "Outer", "Some", "Nothing"}

UnwrapInputs ==
    {<<>>} \cup {<<t>> : t \in UnwrapTypeArgs}
           \cup {<<t, u>> : t \in UnwrapTypeArgs, u \in UnwrapTypeArgs}

Init ==
    /\ registry_single = <<>>
    /\ cache_single = {}
    /\ registry_multi = <<>>
    /\ cache_multi = {}
    /\ op = "init"
    /\ args = <<>>
    /\ kwargs = {}
    /\ func = None
    /\ outcome = Returned(PyNone)
    /\ invoked = <<>>
    /\ warnings = <<>>
    /\ unwrap_op = "init"
    /\ unwrap_arg = <<>>
    /\ unwrap_result = <<>>
    /\ heap = Declare(Undeclared, 1).heap
    /\ instance = Declare(Undeclared, 1).instance
    /\ members = Declare(Undeclared, 1).members
    /\ c_op = "init"
    /\ c_args = NoOperands
    /\ c_result = Returned(PyNone)
    /\ c_calls = <<>>
    /\ dicts = Declared.dicts
    /\ traits = Declared.traits
    /\ t_op = "init"
    /\ t_self = None
    /\ t_args = <<>>

Finish(a, kw, r) ==
    /\ args' = a
    /\ kwargs' = kw
    /\ func' = None
    /\ outcome' = r.outcome
    /\ invoked' = r.invoked
    /\ warnings' = r.warnings
    /\ cache_single' = r.cache_single
    /\ cache_multi' = r.cache_multi
    /\ UNCHANGED <<regs, unwrapVars, casesVars, instanceVars>>

\* @trait.impl(*ts) applied to f
Impl ==
    \E r \in Registrations :
        LET ts == r[1]
            f == r[2]
            d == DecoratorResult(ts, f)
        IN /\ Len(d.registry_single) + Len(d.registry_multi) <= MaxKeys
           /\ registry_single' = d.registry_single
           /\ cache_single' = d.cache_single
           /\ registry_multi' = d.registry_multi
           /\ cache_multi' = d.cache_multi
           /\ op' = "impl"
           /\ args' = ts
           /\ kwargs' = {}
           /\ func' = f
           /\ outcome' = Returned(<<"func", f>>)
           /\ invoked' = <<>>
           /\ warnings' = <<>>
           /\ UNCHANGED <<unwrapVars, casesVars, instanceVars>>

\* trait(*a, **kw)
Call ==
    \E a \in ArgLists, kw \in KwargSets :
        /\ op' = "call"
        /\ Finish(a, kw, CallResult(a, kw))

\* trait.require(*a)
Require ==
    \E a \in ArgLists :
        /\ op' = "require"
        /\ Finish(a, {}, RequireResult(a))

\* trait.check(*a)
Check ==
    \E a \in ArgLists :
        /\ op' = "check"
        /\ Finish(a, {}, CheckResult(a))

Next == Impl \/ Call \/ Require \/ Check

Spec == Init /\ [][Next]_vars

\* _unwrap_types(ts)
Unwrap ==
    \E ts \in UnwrapInputs :
        /\ unwrap_op' = "unwrap"
        /\ unwrap_arg' = ts
        /\ unwrap_result' = UnwrapTypes(ts)
        /\ UNCHANGED <<traitVars, casesVars, instanceVars>>

\* _unwrap_types applied to what it returned last
UnwrapAgain ==
    /\ unwrap_op # "init"
    /\ unwrap_op' = "again"
    /\ unwrap_arg' = unwrap_result
    /\ unwrap_result' = UnwrapTypes(unwrap_result)
    /\ UNCHANGED <<traitVars, casesVars, instanceVars>>

NextUnwrap == Unwrap \/ UnwrapAgain

SpecUnwrap == Init /\ [][NextUnwrap]_vars

CasesDone(o, a, r, h, inst) ==
    /\ c_op' = o
    /\ c_args' = a
    /\ c_result' = r
    /\ heap' = h
    /\ instance' = inst
    /\ c_calls' = <<>>
    /\ UNCHANGED <<members, traitVars, unwrapVars, instanceVars>>

\* cls.<name> for a declared variant name
AccessMember ==
    \E n \in VariantNames :
        /\ c_op' = "access"
        /\ CasesDone("access", [NoOperands EXCEPT !.name = n],
                     IF members[n].kind = "instance"
                     THEN Returned(<<"ref", members[n].ref>>)
                     ELSE Returned(<<"class", members[n].cls>>),
                     heap, instance)

\* c() for a unit variant class c
ConstructUnit ==
    \E c \in UnitClasses :
        LET n == UnitNew(heap, instance, c)
        IN /\ Len(n.heap) <= MaxObjects
           /\ c_op' = "construct_unit"
           /\ CasesDone("construct_unit", [NoOperands EXCEPT !.cls = c],
                        Returned(<<"ref", n.ref>>), n.heap, n.instance)

\* c(p) for a value variant class c
ConstructValue ==
    \E c \in ValueClasses, p \in Payloads :
        LET n == ValueInit(heap, c, p)
        IN /\ Len(n.heap) <= MaxObjects
           /\ c_op' = "construct_value"
           /\ CasesDone("construct_value", [NoOperands EXCEPT !.cls = c, !.value = p],
                        Returned(<<"ref", n.ref>>), n.heap, instance)

\* setattr(o, attr, val)
SetAttr ==
    \E o \in 1..Len(heap), attr \in AttrNames, val \in Payloads :
        LET r == VariantSetAttr(heap, o, attr, val)
        IN /\ c_op' = "setattr"
           /\ CasesDone("setattr", [NoOperands EXCEPT !.obj = o, !.attr = attr, !.value = val],
                        r.outcome, r.heap, instance)

\* delattr(o, attr)
DelAttr ==
    \E o \in 1..Len(heap), attr \in AttrNames :
        LET r == VariantDelAttr(heap, o, attr)
        IN /\ c_op' = "delattr"
           /\ CasesDone("delattr", [NoOperands EXCEPT !.obj = o, !.attr = attr],
                        r.outcome, r.heap, instance)

\* a == b
Eq ==
    \E a \in 1..Len(heap), b \in 1..Len(heap) :
        /\ c_op' = "eq"
        /\ CasesDone("eq", [NoOperands EXCEPT !.obj = a, !.other = b],
                     Returned(PyBool(VariantEq(heap, a, b))), heap, instance)

\* hash(o)
Hash ==
    \E o \in 1..Len(heap) :
        /\ c_op' = "hash"
        /\ CasesDone("hash", [NoOperands EXCEPT !.obj = o],
                     Returned(<<"int", VariantHash(heap, o)>>), heap, instance)

\* len({a, b})
SetLen ==
    \E a \in 1..Len(heap), b \in 1..Len(heap) :
        /\ c_op' = "set_len"
        /\ CasesDone("set_len", [NoOperands EXCEPT !.obj = a, !.other = b],
                     Returned(<<"int", Cardinality(SetOf(heap, <<a, b>>, 2))>>),
                     heap, instance)

\* Annotations handed to _create_variant: no payload, Any, classes (a sum type
\* among them), a union and a generic alias.
Descriptors == {"NoneType", "Any", "A", "Base", "Pet", "A|B", "list[A]"}

\* _create_variant(n, d, s)
Classify ==
    \E n \in VariantNames, d \in Descriptors, s \in {"Option"} :
        LET v == CreateVariant(n, d, s)
        IN /\ c_op' = "create_variant"
           /\ CasesDone("create_variant", [NoOperands EXCEPT !.name = n, !.cls = d],
                        Returned(<<"variant", v.cls, v.kind, v.is_singleton>>),
                        heap, instance)

\* o >> fn
Rshift ==
    \E o \in 1..Len(heap), fn \in Funcs :
        LET r == VariantRshift(heap, o, fn)
        IN /\ c_op' = "rshift"
           /\ c_args' = [NoOperands EXCEPT !.obj = o, !.name = fn]
           /\ c_result' = r.outcome
           /\ c_calls' = r.calls
           /\ UNCHANGED <<heap, instance, members, traitVars, unwrapVars, instanceVars>>

NextCases ==
    \/ AccessMember \/ ConstructUnit \/ ConstructValue \/ SetAttr \/ DelAttr \/ Eq
    \/ Hash \/ SetLen \/ Classify \/ Rshift

SpecCases == Init /\ [][NextCases]_vars


\* The registrations and the queries made on the declared traits.
TraitRegistrations ==
    { <<<<"Base">>, "f">>, <<<<"A|B">>, "g">>, <<<<"A", "B">>, "g">>, <<<<"Base", "B">>, "f">> }

TraitArgLists == { <<"a">>, <<"a", "b">> }

\* @t.impl(*ts) applied to f
ImplOn ==
    \E t \in Traits, r \in TraitRegistrations :
        /\ t_op' = "impl"
        /\ t_self' = t
        /\ t_args' = r[1]
        /\ dicts' = Written(dicts, traits[t],
                            Decorate(Fields(dicts, traits[t]), r[1], r[2]))
        /\ UNCHANGED <<traits, traitVars, unwrapVars, casesVars>>

\* t.require(*a)
RequireOn ==
    \E t \in Traits, a \in TraitArgLists :
        /\ t_op' = "require"
        /\ t_self' = t
        /\ t_args' = a
        /\ dicts' = Written(dicts, traits[t], RequireCaches(Fields(dicts, traits[t]), a))
        /\ UNCHANGED <<traits, traitVars, unwrapVars, casesVars>>

NextTraits == ImplOn \/ RequireOn

SpecTraits == Init /\ [][NextTraits]_vars

(* ------------------- resolution, stated without the search ------------- *)

\* sig matches the argument types tys: same length, and at every position the
\* signature's type is in the MRO of the argument's type.
Matches(sig, tys) ==
    /\ Len(sig) = Len(tys)
    /\ \A i \in 1..Len(tys) : \E j \in 1..Len(Mro(tys[i])) : Mro(tys[i])[j] = sig[i]

MatchingSignatures(tys) ==
    {registry_multi[i][1] : i \in {n \in 1..Len(registry_multi) :
                                     Matches(registry_multi[n][1], tys)}}

\* Some multi-dispatch signature applies to the argument list a.
MultiResolves(a) ==
    /\ registry_multi # <<>>
    /\ Len(a) >= 2
    /\ MatchingSignatures(TypesOf(a)) # {}

\* The position of class t in an MRO (1 = most specific).
Pos(mro, t) == CHOOSE j \in 1..Len(mro) : mro[j] = t

\* k1 comes before k2 in the position-major enumeration of the product of the MROs.
Before(k1, k2, tys) ==
    \E p \in 1..Len(tys) :
        /\ \A q \in 1..(p - 1) : k1[q] = k2[q]
        /\ Pos(Mro(tys[p]), k1[p]) < Pos(Mro(tys[p]), k2[p])

FirstMatch(tys) ==
    CHOOSE k \in MatchingSignatures(tys) :
        \A k2 \in MatchingSignatures(tys) : k2 # k => Before(k, k2, tys)

\* The registered types of t's MRO, and the most specific of them.
RegisteredAncestors(t) ==
    {j \in 1..Len(Mro(t)) : DictHas(registry_single, Mro(t)[j])}

SingleResolves(a) == Len(a) >= 1 /\ RegisteredAncestors(TypeOf(a[1])) # {}

NearestRegistered(t) ==
    Mro(t)[CHOOSE j \in RegisteredAncestors(t) : \A i \in RegisteredAncestors(t) : j <= i]

IsClassName(x) == x \in Classes

(* -------------------------------- C1 ----------------------------------- *)

\* C1: in every reachable state every single-dispatch cache entry equals what an
\* uncached MRO search on the current single-dispatch registry returns, and every
\* multi-dispatch cache entry equals the uncached search on the current
\* multi-dispatch registry: no stale entry survives a registration.
C1_CacheCoherent ==
    /\ \A e \in cache_single :
           e[2] = FindImplementationSingle(e[1], registry_single, {}).impl
    /\ \A e \in cache_multi :
           e[2] = FindImplementationMulti(e[1], registry_multi, {}).impl

\* Base was registered first, A later, and a call on an A has been cached.
C1_Witness ==
    /\ op = "call"
    /\ registry_single = << <<"Base", "f">>, <<"A", "g">> >>
    /\ <<"A", "g">> \in cache_single

(* -------------------------------- C2 ----------------------------------- *)

\* C2: a call resolved by single dispatch on a first argument of type T invokes the
\* implementation registered for the first type of T's MRO that is a key of the
\* single-dispatch registry.
C2_SingleDispatchMro ==
    (op = "call" /\ outcome.kind = "return" /\ ~MultiResolves(args))
        => /\ RegisteredAncestors(TypeOf(args[1])) # {}
           /\ Len(invoked) = 1
           /\ invoked[1].func =
                  DictGet(registry_single, NearestRegistered(TypeOf(args[1])))

\* Base and A are registered; a B (no own registration) got Base's implementation.
C2_Witness ==
    /\ op = "call"
    /\ args = <<"b">>
    /\ DictHas(registry_single, "Base")
    /\ DictHas(registry_single, "A")
    /\ ~DictHas(registry_single, "B")
    /\ DictGet(registry_single, "Base") # DictGet(registry_single, "A")
    /\ Len(invoked) = 1
    /\ invoked[1].func = DictGet(registry_single, "Base")

(* -------------------------------- C3 ----------------------------------- *)

\* C3: a call with n >= 2 arguments resolved by multi-dispatch invokes the first
\* registered signature of the position-major enumeration of the product of the
\* argument types' MROs.
C3_MultiDispatchPositionMajor ==
    (op = "call" /\ outcome.kind = "return" /\ MultiResolves(args))
        => /\ Len(invoked) = 1
           /\ invoked[1].func = DictGet(registry_multi, FirstMatch(TypesOf(args)))

\* (A, Base) and (Base, B) both match (A, B): the leftmost position decides.
C3_Witness ==
    /\ op = "call"
    /\ args = <<"a", "b">>
    /\ DictHas(registry_multi, <<"A", "Base">>)
    /\ DictHas(registry_multi, <<"Base", "B">>)
    /\ DictGet(registry_multi, <<"A", "Base">>) # DictGet(registry_multi, <<"Base", "B">>)
    /\ Len(invoked) = 1
    /\ invoked[1].func = DictGet(registry_multi, <<"A", "Base">>)

(* -------------------------------- C4 ----------------------------------- *)

Reversed(s) == [i \in 1..Len(s) |-> s[Len(s) + 1 - i]]

OrderedPairs == {<<"A", "B">>, <<"B", "A">>}

\* C4 as stated: with (X, Y) registered and (Y, X) not, require on (Y, X) is false
\* and a call on (Y, X) raises the dispatch-miss error.
C4_AsStated ==
    \A sig \in OrderedPairs :
        (/\ op \in {"call", "require"}
         /\ TypesOf(args) = Reversed(sig)
         /\ DictHas(registry_multi, sig)
         /\ ~DictHas(registry_multi, Reversed(sig)))
            => /\ op = "require" =>
                      outcome.kind = "return" /\ outcome.value = PyBool(FALSE)
               /\ op = "call" =>
                      outcome.kind = "raise" /\ outcome.exc = "NotImplementedError"

\* C4 (amended): with (X, Y) registered, require on (Y, X) is false and a call on
\* (Y, X) raises the dispatch-miss error unless some registration applies to (Y, X):
\* a signature whose types lie position by position in the MROs of Y and X, or a
\* single-dispatch registration for a type of Y's MRO; and when both orderings are
\* registered each call invokes the implementation of its own ordering.
C4_ReversedNotResolved ==
    \A sig \in OrderedPairs :
        /\ (/\ op \in {"call", "require"}
            /\ TypesOf(args) = Reversed(sig)
            /\ DictHas(registry_multi, sig)
            /\ MatchingSignatures(Reversed(sig)) = {}
            /\ RegisteredAncestors(sig[2]) = {})
               => /\ op = "require" =>
                         outcome.kind = "return" /\ outcome.value = PyBool(FALSE)
                  /\ op = "call" =>
                         /\ outcome.kind = "raise"
                         /\ outcome.exc = "NotImplementedError"
                         /\ invoked = <<>>
        /\ (/\ op = "call"
            /\ TypesOf(args) = sig
            /\ DictHas(registry_multi, sig)
            /\ DictHas(registry_multi, Reversed(sig)))
               => /\ Len(invoked) = 1
                  /\ invoked[1].func = DictGet(registry_multi, sig)

\* Only (A, B) is registered and require(b, a) has answered False.
C4_Witness ==
    /\ op = "require"
    /\ args = <<"b", "a">>
    /\ DictHas(registry_multi, <<"A", "B">>)
    /\ ~DictHas(registry_multi, <<"B", "A">>)
    /\ outcome.kind = "return"
    /\ outcome.value = PyBool(FALSE)

(* -------------------------------- C5 ----------------------------------- *)

\* C5: when the multi-dispatch registry is non-empty, the call has at least two
\* arguments and some signature matches, the multi-dispatch implementation is
\* invoked with the original arguments and its result returned, whatever the
\* single-dispatch registry holds; nothing else is invoked.
C5_MultiBeforeSingle ==
    (op = "call" /\ MultiResolves(args))
        => \E k \in MatchingSignatures(TypesOf(args)) :
               /\ invoked = <<Invocation(DictGet(registry_multi, k), args, kwargs)>>
               /\ outcome = Returned(Apply(DictGet(registry_multi, k), args, kwargs))

\* Base has single-dispatch implementation f, (A, B) has g, and the call got g.
C5_Witness ==
    /\ op = "call"
    /\ args = <<"a", "b">>
    /\ registry_single = << <<"Base", "f">> >>
    /\ registry_multi = << <<<<"A", "B">>, "g">> >>
    /\ invoked = <<Invocation("g", args, kwargs)>>

(* -------------------------------- C6 ----------------------------------- *)

\* C6: when the multi-dispatch registry is empty, or the call has fewer than two
\* arguments, or no signature matches, the call is resolved by single dispatch on
\* the type of the first argument alone, and the implementation receives all the
\* original positional and keyword arguments.
C6_SingleFallback ==
    (op = "call" /\ args # <<>> /\ ~MultiResolves(args) /\ SingleResolves(args))
        => LET s == DictGet(registry_single, NearestRegistered(TypeOf(args[1])))
           IN /\ invoked = <<Invocation(s, args, kwargs)>>
              /\ outcome = Returned(Apply(s, args, kwargs))

\* The multi-dispatch registry is populated, no signature matches the two
\* arguments, and the call was answered by single dispatch, keywords included.
C6_Witness ==
    /\ op = "call"
    /\ Len(args) >= 2
    /\ registry_multi # <<>>
    /\ ~MultiResolves(args)
    /\ kwargs # {}
    /\ outcome.kind = "return"
    /\ Len(invoked) = 1
    /\ invoked[1].args = args
    /\ invoked[1].kwargs = kwargs

(* -------------------------------- C7 ----------------------------------- *)

\* C7: a call for which neither multi- nor single-dispatch finds an implementation
\* emits exactly one missing-implementation warning, raises the unimplemented
\* error and invokes nothing; a call that resolves emits no warning.
C7_MissWarnsAndRaises ==
    (op = "call" /\ args # <<>>)
        => IF MultiResolves(args) \/ SingleResolves(args)
           THEN warnings = <<>> /\ outcome.kind = "return"
           ELSE /\ Len(warnings) = 1
                /\ warnings[1].category = "MissingImplementationWarning"
                /\ outcome.kind = "raise"
                /\ outcome.exc = "NotImplementedError"
                /\ invoked = <<>>

\* A two-argument call missed both registries although both are populated.
C7_Witness ==
    /\ op = "call"
    /\ Len(args) >= 2
    /\ registry_multi # <<>>
    /\ registry_single # <<>>
    /\ outcome.exc = "NotImplementedError"
    /\ Len(warnings) = 1

(* -------------------------------- C8 ----------------------------------- *)

\* C8: on a dispatch miss the warning and the error carry the same text, which names
\* the trait and, when the multi-dispatch registry is non-empty and the call has at
\* least two arguments, the types of all arguments in order; otherwise only the
\* type of the first argument.
C8_MissMessage ==
    (op = "call" /\ outcome.kind = "raise" /\ outcome.exc = "NotImplementedError")
        => /\ Len(warnings) = 1
           /\ warnings[1].msg = outcome.msg
           /\ \E i \in 1..Len(outcome.msg) : outcome.msg[i] = TraitName
           /\ SelectSeq(outcome.msg, IsClassName) =
                  IF registry_multi # <<>> /\ Len(args) >= 2
                  THEN [i \in 1..Len(args) |-> TypeOf(args[i])]
                  ELSE <<TypeOf(args[1])>>

\* A miss on (b, a) with a populated multi-dispatch registry names B, then A.
C8_Witness ==
    /\ op = "call"
    /\ args = <<"b", "a">>
    /\ registry_multi # <<>>
    /\ outcome.exc = "NotImplementedError"
    /\ SelectSeq(outcome.msg, IsClassName) = <<"B", "A">>

(* -------------------------------- C9 ----------------------------------- *)

\* C9: a call with no positional argument fails with the 'requires at least one
\* argument' error in every trait state, changing no registry and no cache,
\* invoking nothing and warning of nothing.
C9_ZeroArgsCall ==
    [][(op' = "call" /\ args' = <<>>)
          => /\ outcome'.kind = "raise"
             /\ outcome'.exc = "TypeError"
             /\ \E i \in 1..Len(outcome'.msg) :
                    outcome'.msg[i] = "() requires at least one argument"
             /\ invoked' = <<>>
             /\ warnings' = <<>>
             /\ UNCHANGED <<regs, caches>>]_vars

\* A zero-argument call made on a trait with populated registries and caches.
C9_Witness ==
    /\ op = "call"
    /\ args = <<>>
    /\ registry_single # <<>>
    /\ registry_multi # <<>>
    /\ cache_single # {}
    /\ cache_multi # {}
    /\ outcome.exc = "TypeError"

(* -------------------------------- C10 ---------------------------------- *)

\* C10: for a non-empty argument list require returns true exactly when a call with
\* the same arguments would resolve and false exactly when that call would raise the
\* dispatch-miss error; require invokes nothing, warns of nothing, raises nothing.
C10_RequireAgreesWithCall ==
    (op = "require" /\ args # <<>>)
        => /\ outcome.kind = "return"
           /\ invoked = <<>>
           /\ warnings = <<>>
           /\ \A kw \in KwargSets :
                  /\ (outcome.value = PyBool(TRUE))
                         <=> (CallResult(args, kw).outcome.kind = "return")
                  /\ (outcome.value = PyBool(FALSE))
                         <=> (CallResult(args, kw).outcome.exc = "NotImplementedError")

\* require answered True through the single-dispatch fallback of a two-argument
\* query that no signature matches.
C10_Witness ==
    /\ op = "require"
    /\ Len(args) >= 2
    /\ registry_multi # <<>>
    /\ ~MultiResolves(args)
    /\ outcome.kind = "return"
    /\ outcome.value = PyBool(TRUE)

(* -------------------------------- C11 ---------------------------------- *)

\* The text of the 'no implementation' error.
IsNoImplementationMessage(m) == Len(m) >= 1 /\ m[1] = "No implementation of '"

\* C11 as stated: for every argument list check returns normally exactly when
\* require is true and otherwise fails with the 'no implementation' type error,
\* never warning and never invoking an implementation.
C11_AsStated ==
    (op = "check")
        => /\ warnings = <<>>
           /\ invoked = <<>>
           /\ IF RequireResult(args).outcome.kind = "return"
                 /\ RequireResult(args).outcome.value = PyBool(TRUE)
              THEN outcome = Returned(PyNone)
              ELSE /\ outcome.kind = "raise"
                   /\ outcome.exc = "TypeError"
                   /\ IsNoImplementationMessage(outcome.msg)

\* C11 on non-empty argument lists: check returns normally exactly when require
\* is true and otherwise fails with the 'no implementation' type error; in
\* neither case does it warn or invoke an implementation.
C11_CheckAgreesWithRequire ==
    (op = "check" /\ args # <<>>)
        => /\ warnings = <<>>
           /\ invoked = <<>>
           /\ RequireResult(args).outcome.kind = "return"
           /\ IF RequireResult(args).outcome.value = PyBool(TRUE)
              THEN outcome = Returned(PyNone)
              ELSE /\ outcome.kind = "raise"
                   /\ outcome.exc = "TypeError"
                   /\ IsNoImplementationMessage(outcome.msg)

\* check() without arguments on a trait with registrations: require is not true,
\* and the failure is the IndexError of objs[0].
C11_Witness ==
    /\ op = "check"
    /\ args = <<>>
    /\ registry_single # <<>>
    /\ outcome.kind = "raise"
    /\ outcome.exc = "IndexError"

(* -------------------------------- C12 ---------------------------------- *)

\* The only type argument denotes a union: a built-in union or a declared sum type.
DenotesUnion(t) == IsUnion(t) \/ t \in SumTypes

\* The constituent types of a union: the members of a built-in union, the runtime
\* types of the declared variants of a sum type.
Constituents(t) ==
    IF t \in SumTypes THEN {VariantTypes(t)[i] : i \in 1..Len(VariantTypes(t))}
    ELSE {GetArgs(t)[i] : i \in 1..Len(GetArgs(t))}

\* C12: after the decorator of impl(U) with U the only type argument and a union,
\* every constituent type of U is a key of the single-dispatch registry holding
\* the function just registered, so an instance of that constituent resolves to it
\* and the constituent appears in types.
C12_UnionRegistersEveryConstituent ==
    (op = "impl" /\ Len(args) = 1 /\ DenotesUnion(args[1]))
        => \A c \in Constituents(args[1]) :
              /\ DictHas(registry_single, c)
              /\ DictGet(registry_single, c) = func
              /\ FindImplementationSingle(c, registry_single, cache_single).impl = func
              /\ \E i \in 1..Len(types) : types[i] = c

\* impl(Solo)(f), Solo having the single variant Only: A, registered f under the
\* key Solo and left A unregistered: an instance of A has no implementation.
C12_Witness ==
    /\ op = "impl"
    /\ args = <<"Solo">>
    /\ DictHas(registry_single, "Solo")
    /\ ~DictHas(registry_single, "A")
    /\ FindImplementationSingle("A", registry_single, cache_single).impl = None

(* -------------------------------- C13 ---------------------------------- *)

\* C13: unwrapping one type that is neither a declared sum type nor a built-in
\* union returns the one-element sequence holding that type, and unwrapping a
\* declared sum type returns exactly the runtime types of its declared variants,
\* in declaration order, whatever the declaration.
C13_UnwrapReturnsVariantTypes ==
    (unwrap_op = "unwrap" /\ Len(unwrap_arg) = 1)
        => /\ (unwrap_arg[1] \notin SumTypes /\ ~IsUnion(unwrap_arg[1]))
                => unwrap_result = <<unwrap_arg[1]>>
           /\ (unwrap_arg[1] \in SumTypes)
                => unwrap_result = VariantTypes(unwrap_arg[1])

\* Unwrapping Solo, declared with the single variant Only: A, returned Solo itself.
C13_Witness ==
    /\ unwrap_op = "unwrap"
    /\ unwrap_arg = <<"Solo">>
    /\ VariantTypes("Solo") = <<"A">>
    /\ unwrap_result = <<"Solo">>

(* -------------------------------- C14 ---------------------------------- *)

\* C14: unwrapping is idempotent and free of side effects: unwrapping what an
\* unwrap returned returns it unchanged, and no unwrap changes a registry, a cache
\* or the state of a sum type.
C14_UnwrapIdempotent ==
    [][/\ (unwrap_op' = "again") => (unwrap_result' = unwrap_arg')
       /\ UNCHANGED <<traitVars, casesVars>>]_vars

\* Unwrapping (Outer,) gave (Pet, Base); unwrapping that gave (A, B, Base).
C14_Witness ==
    /\ unwrap_op = "again"
    /\ unwrap_arg = <<"Pet", "Base">>
    /\ unwrap_result = <<"A", "B", "Base">>

(* -------------------------------- C15 ---------------------------------- *)

\* No key occurs twice in a sequence of keys.
NoRepeats(ks) == \A i, j \in 1..Len(ks) : ks[i] = ks[j] => i = j

\* The keys impl(*ts) registers: the signature, or each unwrapped type.
RegisteredKeys(ts) ==
    IF Len(ts) > 1 THEN {UnwrapSignature(ts)}
    ELSE {UnwrapTypes(ts)[i] : i \in 1..Len(UnwrapTypes(ts))}

\* The implementation the registries hold now for the key that answers a call
\* with arguments a (a signature first, else a type of the first argument's MRO).
RegisteredFor(a) ==
    IF MultiResolves(a) THEN DictGet(registry_multi, FirstMatch(TypesOf(a)))
    ELSE DictGet(registry_single, NearestRegistered(TypeOf(a[1])))

\* C15: a registration never raises; every key it registers, new or already
\* registered, holds the function just given; a key that was already registered
\* keeps its place, so types and signatures do not grow; nothing but a
\* registration changes the registries; at every point no key occurs twice in
\* types or signatures, and every call that resolves has invoked what the
\* registries hold for the key that answers it, which is therefore the last
\* implementation registered for that key.
C15_LastRegistrationWins ==
    /\ [](/\ NoRepeats(types) /\ NoRepeats(signatures)
          /\ (op = "call" /\ invoked # <<>>)
                => invoked = <<Invocation(RegisteredFor(args), args, kwargs)>>)
    /\ [][/\ (op' = "impl")
               => /\ outcome'.kind = "return"
                  /\ IF Len(args') > 1
                     THEN /\ \A k \in RegisteredKeys(args') :
                                /\ DictHas(registry_multi', k)
                                /\ DictGet(registry_multi', k) = func'
                                /\ DictHas(registry_multi, k) => signatures' = signatures
                          /\ registry_single' = registry_single
                     ELSE /\ \A k \in RegisteredKeys(args') :
                                /\ DictHas(registry_single', k)
                                /\ DictGet(registry_single', k) = func'
                          /\ (\A k \in RegisteredKeys(args') : DictHas(registry_single, k))
                                => types' = types
                          /\ registry_multi' = registry_multi
          /\ (op' # "impl") => UNCHANGED regs]_vars

\* A was registered with f through A | B and then again with g: A stays the first
\* of the two types, and a call on an instance of A ran g.
C15_Witness ==
    /\ op = "call"
    /\ args = <<"a">>
    /\ registry_single = << <<"A", "g">>, <<"B", "f">> >>
    /\ Len(invoked) = 1
    /\ invoked[1].func = "g"

(* -------------------------------- C16 ---------------------------------- *)

\* C16: the mode of a registration with two type arguments follows the declared
\* parameter count of the function: a one-parameter function is registered under
\* each of the two types in the single-dispatch registry, a function with two or
\* more parameters under the signature in the multi-dispatch registry.
C16_ModeByParameterCount ==
    (op = "impl" /\ Len(args) = 2)
        => IF NParams(func) = 1
           THEN \A k \in {UnwrapTypes(args)[i] : i \in 1..Len(UnwrapTypes(args))} :
                    /\ DictHas(registry_single, k)
                    /\ DictGet(registry_single, k) = func
           ELSE /\ DictHas(registry_multi, UnwrapSignature(args))
                /\ DictGet(registry_multi, UnwrapSignature(args)) = func

\* impl(B, A) applied to the one-parameter f: f is in the multi-dispatch registry
\* under the signature (B, A), and the single-dispatch registry is empty.
C16_Witness ==
    /\ op = "impl"
    /\ args = <<"B", "A">>
    /\ NParams(func) = 1
    /\ DictHas(registry_multi, <<"B", "A">>)
    /\ DictGet(registry_multi, <<"B", "A">>) = func
    /\ registry_single = <<>>

(* -------------------------------- C17 ---------------------------------- *)

\* The elements of a sequence.
Range(seq) == {seq[i] : i \in 1..Len(seq)}

\* The constituent types of the type argument of a one-argument impl: those of a
\* union, or the type itself.
ConstituentsOf(t) == IF DenotesUnion(t) THEN Constituents(t) ELSE {t}

\* C17: types and signatures are the keys of the two registries at every point: a
\* one-argument registration adds the constituent types of its argument to types,
\* and nothing else, and leaves signatures alone; a registration with several
\* arguments adds its signature to signatures and leaves types alone; nothing
\* else changes either.
C17_TypesAndSignatures ==
    [][/\ types' = DictKeys(registry_single') /\ signatures' = DictKeys(registry_multi')
       /\ (op' = "impl" /\ Len(args') = 1)
            => /\ signatures' = signatures
               /\ Range(types') = Range(types) \cup ConstituentsOf(args'[1])
       /\ (op' = "impl" /\ Len(args') > 1)
            => /\ types' = types
               /\ Range(signatures') = Range(signatures) \cup {UnwrapSignature(args')}
       /\ (op' # "impl") => (types' = types /\ signatures' = signatures)]_vars

\* C17 with the types a one-argument registration adds taken from _unwrap_types:
\* the two introspection properties never mix.
C17_TypesAndSignaturesAsUnwrapped ==
    [][/\ (op' = "impl" /\ Len(args') = 1)
            => /\ signatures' = signatures
               /\ Range(types') = Range(types) \cup Range(UnwrapTypes(args'))
       /\ (op' = "impl" /\ Len(args') > 1)
            => /\ types' = types
               /\ Range(signatures') = Range(signatures) \cup {UnwrapSignature(args')}
       /\ (op' # "impl") => (types' = types /\ signatures' = signatures)]_vars

\* After impl(Solo)(f) on a trait holding one signature, types holds Solo, which
\* is no constituent type, and lacks Solo's variant type A.
C17_Witness ==
    /\ op = "impl"
    /\ args = <<"Solo">>
    /\ signatures # <<>>
    /\ types = <<"Solo">>
    /\ "A" \in ConstituentsOf("Solo")

(* -------------------------------- C18 ---------------------------------- *)

\* The instances of class c constructed so far.
InstancesOf(c) == {i \in 1..Len(heap) : heap[i].cls = c}

\* C18: at most one instance of every unit variant class ever exists, and every
\* access of the variant through its sum type and every construction of its class
\* yields that instance.
C18_UnitSingleton ==
    /\ \A c \in UnitClasses : Cardinality(InstancesOf(c)) <= 1
    /\ (c_op = "construct_unit")
         => /\ c_result.kind = "return"
            /\ \E i \in InstancesOf(c_args.cls) : c_result.value = <<"ref", i>>
    /\ (c_op = "access" /\ c_args.name \in UnitClasses)
         => /\ c_result.kind = "return"
            /\ \E i \in InstancesOf(c_args.name) : c_result.value = <<"ref", i>>

\* Nothing's class was constructed after value variants had been: the result is
\* the instance Option.Nothing has held since the declaration.
C18_Witness ==
    /\ c_op = "construct_unit"
    /\ c_args.cls = "Nothing"
    /\ Len(heap) > Cardinality(UnitClasses)
    /\ members["Nothing"].kind = "instance"
    /\ c_result.value = <<"ref", members["Nothing"].ref>>
    /\ InstancesOf("Nothing") = {members["Nothing"].ref}

(* -------------------------------- C19 ---------------------------------- *)

\* C19: two value-variant instances are equal exactly when they are instances of
\* the same variant class and their payloads are equal.
C19_ValueEquality ==
    (c_op = "eq" /\ heap[c_args.obj].cls \in ValueClasses
                 /\ heap[c_args.other].cls \in ValueClasses)
        => /\ c_result.kind = "return"
           /\ (c_result.value = PyBool(TRUE))
                <=> (/\ heap[c_args.obj].cls = heap[c_args.other].cls
                     /\ heap[c_args.obj].payload = heap[c_args.other].payload)
           /\ c_result.value \in {PyBool(TRUE), PyBool(FALSE)}

\* Two instances of different value variants with equal payloads compared unequal.
C19_Witness ==
    /\ c_op = "eq"
    /\ heap[c_args.obj].cls \in ValueClasses
    /\ heap[c_args.other].cls \in ValueClasses
    /\ heap[c_args.obj].cls # heap[c_args.other].cls
    /\ heap[c_args.obj].payload = heap[c_args.other].payload
    /\ c_result = Returned(PyBool(FALSE))

(* -------------------------------- C20 ---------------------------------- *)

\* C20: assigning or deleting an attribute of a variant instance, whatever the
\* name, fails with the immutability error of the instance's variant, and no step
\* changes an instance once constructed: the payload of a value variant stays the
\* one given at construction, and a unit variant class keeps its one instance.
C20_VariantsImmutable ==
    [][/\ (c_op' \in {"setattr", "delattr"})
            => /\ c_result' = Raised("AttributeError",
                                     <<heap[c_args'.obj].cls, " is immutable">>)
               /\ heap' = heap
               /\ instance' = instance
       /\ Len(heap') >= Len(heap)
       /\ \A i \in 1..Len(heap) : heap'[i] = heap[i]
       /\ \A c \in UnitClasses : instance[c] # 0 => instance'[c] = instance[c]]_vars

\* An attempt to overwrite the payload slot of a value variant with another
\* payload failed, and the payload is the one it was constructed with.
C20_Witness ==
    /\ c_op = "setattr"
    /\ c_args.attr = "_value"
    /\ heap[c_args.obj].cls \in ValueClasses
    /\ c_args.value # heap[c_args.obj].payload
    /\ heap[c_args.obj].payload \in Payloads
    /\ c_result.kind = "raise"
    /\ c_result.exc = "AttributeError"

(* -------------------------------- C21 ---------------------------------- *)

\* C21: hashing agrees with equality: instances of one value variant with equal
\* payloads have one hash, the instance of a unit variant has the hash of its
\* name, so any two equal instances have equal hashes, hash(o) returns that
\* number, and a set built from two equal instances has exactly one element.
C21_HashAgreesWithEquality ==
    /\ \A a, b \in 1..Len(heap) :
          /\ (heap[a].cls = heap[b].cls /\ heap[a].payload = heap[b].payload)
                => VariantHash(heap, a) = VariantHash(heap, b)
          /\ VariantEq(heap, a, b) => VariantHash(heap, a) = VariantHash(heap, b)
    /\ \A a \in 1..Len(heap) :
          heap[a].cls \in UnitClasses => VariantHash(heap, a) = AtomHash(heap[a].cls)
    /\ (c_op = "hash") => c_result = Returned(<<"int", VariantHash(heap, c_args.obj)>>)
    /\ (c_op = "set_len" /\ VariantEq(heap, c_args.obj, c_args.other))
          => c_result = Returned(<<"int", 1>>)

\* A set was built from two distinct instances of one value variant holding equal
\* payloads, and it has one element.
C21_Witness ==
    /\ c_op = "set_len"
    /\ c_args.obj # c_args.other
    /\ heap[c_args.obj].cls \in ValueClasses
    /\ VariantEq(heap, c_args.obj, c_args.other)
    /\ c_result = Returned(<<"int", 1>>)

(* -------------------------------- C22 ---------------------------------- *)

\* The annotation is an existing class: neither "no payload" nor Any.
IsExternalType(d) == d \in PlainClasses \cup SumTypes

\* What the classification of annotation d for the variant named n must give: the
\* class, the kind, and whether the variant is a singleton.
Classified(n, d) ==
    IF d = "NoneType" THEN <<"variant", n, "unit", TRUE>>
    ELSE IF IsExternalType(d) THEN <<"variant", d, "alias", FALSE>>
    ELSE <<"variant", n, "value", FALSE>>

\* C22: classifying an annotation never fails and has one of three outcomes: "no
\* payload" gives a synthesized singleton class, an existing class gives that
\* class itself, and every other annotation gives a synthesized value class; each
\* declared variant is recorded on its sum type accordingly, the alias as the
\* external class itself.
C22_ClassificationTotal ==
    /\ (c_op = "create_variant")
         => /\ c_result.kind = "return"
            /\ c_result.value = Classified(c_args.name, c_args.cls)
    /\ \A s \in SumTypes : \A i \in 1..Len(Annotations(s)) :
          LET n == Annotations(s)[i][1]
              d == Annotations(s)[i][2]
          IN /\ VariantTypes(s)[i] = Classified(n, d)[2]
             /\ IF d = "NoneType"
                THEN /\ members[n].kind = "instance"
                     /\ heap[members[n].ref].cls = n
                ELSE members[n] = ClassMember(Classified(n, d)[2])

\* A union annotation, neither "no payload" nor a class, was classified as a
\* synthesized value variant.
C22_Witness ==
    /\ c_op = "create_variant"
    /\ c_args.cls = "A|B"
    /\ c_result = Returned(<<"variant", c_args.name, "value", FALSE>>)


(* -------------------------------- C23 ---------------------------------- *)

\* C23: o >> fn on a value variant calls fn exactly once, with the payload alone,
\* and returns what fn returned, not a variant wrapping it; on a unit variant it
\* calls nothing and returns o, which is the singleton of its class.
C23_PipeOperator ==
    (c_op = "rshift") =>
        LET o == c_args.obj
            fn == c_args.name
        IN IF heap[o].cls \in ValueClasses
           THEN /\ c_calls = <<Invocation(fn, <<heap[o].payload>>, {})>>
                /\ c_result = Returned(Apply(fn, <<heap[o].payload>>, {}))
           ELSE /\ heap[o].cls \in UnitClasses
                /\ c_calls = <<>>
                /\ c_result = Returned(<<"ref", o>>)
                /\ instance[heap[o].cls] = o

\* A value variant holding "p" was piped into f, and f("p") came back.
C23_Witness ==
    /\ c_op = "rshift"
    /\ heap[c_args.obj].cls = "Some"
    /\ heap[c_args.obj].payload = "p"
    /\ c_calls = <<Invocation("f", <<"p">>, {})>>
    /\ c_result = Returned(Apply("f", <<"p">>, {}))


(* -------------------------------- C24 ---------------------------------- *)

\* The call just made was answered by the multi-dispatch lookup: the lookup left
\* its implementation under the call's argument types, and that one was invoked.
ResolvedByMulti ==
    /\ CacheHas(cache_multi, TypesOf(args))
    /\ invoked = <<Invocation(CacheGet(cache_multi, TypesOf(args)), args, kwargs)>>

\* Signature n of the multi-dispatch registry has as many types as the call has
\* arguments, and its type at every position is in the MRO of that argument's type.
SignatureFits(n) ==
    /\ Len(registry_multi[n][1]) = Len(args)
    /\ \A i \in 1..Len(args) :
          \E j \in 1..Len(Mro(TypeOf(args[i]))) :
              Mro(TypeOf(args[i]))[j] = registry_multi[n][1][i]

\* C24: a call with n >= 2 arguments on a trait whose multi-dispatch registry is
\* not empty is resolved by a multi-dispatch implementation exactly when some
\* registered signature has n types, the i-th in the MRO of the i-th argument's
\* type; when every registered signature has another length, none resolves it.
C24_MultiMatchesByLengthAndMro ==
    (op = "call" /\ Len(args) >= 2 /\ registry_multi # <<>>)
        => /\ ResolvedByMulti <=> \E n \in 1..Len(registry_multi) : SignatureFits(n)
           /\ (\A n \in 1..Len(registry_multi) : Len(registry_multi[n][1]) # Len(args))
                 => ~ResolvedByMulti /\ ~CacheHas(cache_multi, TypesOf(args))

\* Only (A, B, A) is registered; the call with (a, b), whose types start that
\* signature, was not resolved by it.
C24_Witness ==
    /\ op = "call"
    /\ args = <<"a", "b">>
    /\ registry_multi = << <<<<"A", "B", "A">>, "g">> >>
    /\ ~CacheHas(cache_multi, <<"A", "B">>)
    /\ outcome.kind = "raise"


(* -------------------------------- C25 ---------------------------------- *)

\* A sum type declared with at least one variant.
HasConstituents(t) == t \in SumTypes /\ VariantTypes(t) # <<>>

\* The first constituent type of a type argument: of a union its first member, of
\* a declared sum type the type of its first variant, of a class the class.
FirstConstituent(t) ==
    IF IsUnion(t) THEN GetArgs(t)[1]
    ELSE IF HasConstituents(t) THEN VariantTypes(t)[1]
    ELSE t

\* The other constituent types of a type argument.
OtherConstituents(t) ==
    LET all == IF IsUnion(t) THEN GetArgs(t)
               ELSE IF HasConstituents(t) THEN VariantTypes(t) ELSE <<t>>
    IN {all[i] : i \in 1..Len(all)} \ {FirstConstituent(t)}

\* The registration just applied had more than one type argument; sig is the key
\* expected of it: it is registered with the decorated function, the
\* multi-dispatch cache is empty, and an argument whose type is another
\* constituent of the type argument at its position does not fit the key.
RegisteredUnder(sig) ==
    /\ DictHas(registry_multi, sig)
    /\ DictGet(registry_multi, sig) = func
    /\ cache_multi = {}
    /\ \A i \in 1..Len(args) : \A c \in OtherConstituents(args[i]) :
          \A j \in 1..Len(Mro(c)) : Mro(c)[j] # sig[i]

\* C25: the decorator of impl with more than one type argument registers the
\* function under the tuple of the first constituent types of its arguments (a
\* union and a declared sum type give their first constituent), clears the
\* multi-dispatch cache, and a call whose argument at a position is another
\* constituent does not match.
C25_MultiKeyedByFirstConstituents ==
    (op = "impl" /\ Len(args) > 1)
        => RegisteredUnder([i \in 1..Len(args) |-> FirstConstituent(args[i])])

\* What holds instead: as C25, except that a sum type whose variants have a single
\* type between them stands in the key as itself.
C25_MultiKeyedAsUnwrapped ==
    (op = "impl" /\ Len(args) > 1)
        => RegisteredUnder([i \in 1..Len(args) |->
                               IF HasConstituents(args[i])
                                  /\ OtherConstituents(args[i]) = {}
                               THEN args[i]
                               ELSE FirstConstituent(args[i])])

\* impl(Solo, B) was applied: the key is (Solo, B), not (A, B).
C25_Witness ==
    /\ op = "impl"
    /\ args = <<"Solo", "B">>
    /\ DictHas(registry_multi, <<"Solo", "B">>)
    /\ ~DictHas(registry_multi, <<"A", "B">>)


(* -------------------------------- C26 ---------------------------------- *)

\* The operation just performed was a resolution with at least one argument.
Resolved == op \in {"call", "require", "check"} /\ Len(args) >= 1

\* It searched the multi-dispatch registry; it searched the single-dispatch one.
SearchedMulti == Resolved /\ TryMulti(args)

SearchedSingle ==
    Resolved /\ (TryMulti(args) => ~CacheHas(cache_multi, TypesOf(args)))

\* C26: every resolution leaves an entry in the cache of each registry it
\* searched, under the original argument type(s), whether the search found an
\* implementation or none.
C26_EveryResolutionCached ==
    /\ SearchedMulti => CacheHas(cache_multi, TypesOf(args))
    /\ SearchedSingle => CacheHas(cache_single, TypeOf(args[1]))

\* What holds instead: a search that finds an implementation leaves it in the
\* cache, and a search that finds none leaves no entry.
C26_OnlyHitsCached ==
    /\ SearchedMulti
         => (CacheHas(cache_multi, TypesOf(args))
                <=> MatchingSignatures(TypesOf(args)) # {})
    /\ SearchedSingle
         => (CacheHas(cache_single, TypeOf(args[1]))
                <=> RegisteredAncestors(TypeOf(args[1])) # {})

\* A call with (a, b) searched a multi-dispatch registry holding only (B, A), found
\* nothing in either registry, and left both caches without an entry.
C26_Witness ==
    /\ op = "call"
    /\ args = <<"a", "b">>
    /\ registry_multi = << <<<<"B", "A">>, "f">> >>
    /\ outcome.kind = "raise"
    /\ ~CacheHas(cache_multi, <<"A", "B">>)
    /\ ~CacheHas(cache_single, "A")


(* -------------------------------- C27 ---------------------------------- *)

\* require or check was just applied to no argument at all.
ZeroArgumentQuery == op \in {"require", "check"} /\ args = <<>>

\* C27: require and check without arguments fail as a call does, with the type
\* error '<trait>() requires at least one argument', in every trait state.
C27_ZeroArgsPrecondition ==
    ZeroArgumentQuery => outcome = Raised("TypeError", NoArgsMessage)

\* What holds instead: they fail with the IndexError of indexing the empty
\* argument tuple, whatever is registered, without warning or invoking anything.
C27_ZeroArgsIndexError ==
    ZeroArgumentQuery
        => /\ outcome = Raised("IndexError", <<"tuple index out of range">>)
           /\ warnings = <<>>
           /\ invoked = <<>>

\* require() on a trait with a multi-dispatch signature ended in the IndexError.
C27_Witness ==
    /\ op = "require"
    /\ args = <<>>
    /\ registry_multi # <<>>
    /\ outcome.kind = "raise"
    /\ outcome.exc = "IndexError"
    /\ outcome.msg # NoArgsMessage


(* -------------------------------- C28 ---------------------------------- *)

\* The functions registered as implementations.
RegisteredFuncs ==
    {registry_single[i][2] : i \in 1..Len(registry_single)}
        \cup {registry_multi[i][2] : i \in 1..Len(registry_multi)}

\* C28: the function a trait was declared with is never executed: whatever was
\* invoked is one registered implementation, require and check invoke nothing,
\* and a call that matches nothing warns and raises the unimplemented error
\* instead of returning what the default body would return.
C28_DefaultNeverRuns ==
    /\ \A i \in 1..Len(invoked) :
          invoked[i].func # default_func /\ invoked[i].func \in RegisteredFuncs
    /\ Len(invoked) <= 1
    /\ (op \in {"require", "check"}) => invoked = <<>>
    /\ outcome # Returned(Apply(default_func, args, kwargs))
    /\ (op = "call" /\ args # <<>> /\ ~MultiResolves(args) /\ ~SingleResolves(args))
          => /\ invoked = <<>>
             /\ warnings # <<>>
             /\ outcome.kind = "raise"
             /\ outcome.exc = "NotImplementedError"

\* A trait with nothing but its default was called: the unimplemented error.
C28_Witness ==
    /\ op = "call"
    /\ args = <<"a">>
    /\ registry_single = <<>>
    /\ registry_multi = <<>>
    /\ invoked = <<>>
    /\ outcome.exc = "NotImplementedError"


(* -------------------------------- C29 ---------------------------------- *)

\* C29: types and signatures are read off the registries, and a step that is a
\* call (resolved, missing or without arguments), a require or a check leaves
\* both registries as they were and keeps every cache entry there was; a step
\* that changes a registry is the application of an impl decorator.
C29_ResolutionLeavesRegistries ==
    /\ [](types = DictKeys(registry_single) /\ signatures = DictKeys(registry_multi))
    /\ [][/\ (op' \in {"call", "require", "check"})
               => /\ regs' = regs
                  /\ cache_single \subseteq cache_single'
                  /\ cache_multi \subseteq cache_multi'
          /\ (regs' # regs) => op' = "impl"]_vars

\* A resolution found a cache that already held an entry and added a second one.
C29_Witness ==
    /\ op \in {"call", "require", "check"}
    /\ args = <<"b">>
    /\ registry_single # <<>>
    /\ CacheHas(cache_single, "A")
    /\ CacheHas(cache_single, "B")


(* -------------------------------- C30 ---------------------------------- *)

\* Field k of trait t in the dict objects store.
FieldOf(store, t, k) == store[traits[t][k]]

====
